---- MODULE Spec2Model ----
(***************************************************************************)
(* Money_Tracker (src/app.py): the debt ledger of a Flask application.     *)
(* The database tables Person, Debt and Transaction are the state; every   *)
(* route of the application is an action.  add_transaction commits twice   *)
(* (the Debt at line 180, the Transaction at line 183), so it is modelled  *)
(* as the steps between its database round trips.  Amounts are integers    *)
(* in units of half a cent (0.005), so that the settlement threshold 0.01  *)
(* is two units and a balance strictly between 0 and 0.01 exists.          *)
(***************************************************************************)
EXTENDS Integers, Sequences, FiniteSets, TLC

VARIABLES
    users,      \* table user:        the ids of the registered accounts
    people,     \* table person:      id -> [name, user_id]
    debts,      \* table debt:        id -> [person_id, direction, status]
    txs,        \* table transaction: id -> [debt_id, amount, type, description, date]
    clock,      \* datetime.utcnow, in ticks
    req,        \* per worker: the request it is serving and where it stands in it
    resp        \* per worker: the response its request ended with, until it is sent

vars == <<users, people, debts, txs, clock, req, resp>>

----------------------------------------------------------------------------
(* Bounds of the model *)

MaxDebts == 2
MaxTxs == 3

(* The registered accounts (rows of table user); current_user is one of them. *)
Users == {1, 2}

(* The workers that serve requests. *)
Workers == {1, 2}

(* Python's None / SQL NULL for a string column. *)
NULL == "<NULL>"

(* Form values as typed in: raw person names and descriptions. *)
RawNames == {"", " al ", "al"}
RawDescriptions == {"  ", " lunch "}

(* request.form.get('direction'): the two directions of the form, or none. *)
Directions == {"lent", "borrowed", NULL}

(* Nothing restricts the field to them: any other text can be posted. *)
FormDirections == Directions \cup {"gift"}

(* request.form.get('amount'): absent, not a number, the text "nan", or a  *)
(* decimal number of units.                                                 *)
Missing == [kind |-> "missing", val |-> 0]
Garbage == [kind |-> "text", val |-> 0]
NanText == [kind |-> "nan", val |-> 0]
NumText(n) == [kind |-> "num", val |-> n]
FormAmounts == {Missing, Garbage, NanText} \cup {NumText(n) : n \in {0, 1, 3}}

(* Amounts a payment request may carry. *)
PayAmounts == {0, 1, 2, 4}

----------------------------------------------------------------------------
(* Helpers *)

Max(S) == CHOOSE x \in S : \A y \in S : y <= x

(* A key that repeats the newest row's. *)
NewIdRepeated(table) == IF DOMAIN table = {} THEN 1 ELSE Max(DOMAIN table)

(* The primary key the store gives a new row: max(rowid) + 1. *)
NewId(table) == IF DOMAIN table = {} THEN 1 ELSE Max(DOMAIN table) + 1

Extend(table, id, row) == [i \in DOMAIN table \cup {id} |-> IF i = id THEN row ELSE table[i]]

(* str.strip() on the raw form values of the model. *)
Strip(s) ==
    CASE s = " al " -> "al"
      [] s = "  " -> ""
      [] s = " lunch " -> "lunch"
      [] OTHER -> s

(* float(amount_str): a float, NaN, or ValueError/TypeError. *)
ValueError == [ok |-> FALSE, nan |-> FALSE, val |-> 0]
Float(s) ==
    CASE s.kind = "num" -> [ok |-> TRUE, nan |-> FALSE, val |-> s.val]
      [] s.kind = "nan" -> [ok |-> TRUE, nan |-> TRUE, val |-> 0]
      [] OTHER -> ValueError

(* A form field is truthy when present and non-empty. *)
Truthy(s) == s.kind # "missing"

RECURSIVE SumAmounts(_, _)
SumAmounts(table, ids) ==
    IF ids = {} THEN 0
    ELSE LET i == CHOOSE x \in ids : TRUE
         IN  table[i].amount + SumAmounts(table, ids \ {i})

TxsOf(table, d) == {t \in DOMAIN table : table[t].debt_id = d}

(* A balance that subtracts every payment twice. *)
BalanceInPaymentsTwice(table, d) ==
    SumAmounts(table, {t \in TxsOf(table, d) : table[t].type = "loan"})
    - 2 * SumAmounts(table, {t \in TxsOf(table, d) : table[t].type = "payment"})

(* Debt.balance: the loans of the debt minus its payments; a row of any    *)
(* other type adds to neither sum.                                          *)
BalanceIn(table, d) ==
    SumAmounts(table, {t \in TxsOf(table, d) : table[t].type = "loan"})
    - SumAmounts(table, {t \in TxsOf(table, d) : table[t].type = "payment"})

balance(d) == BalanceIn(txs, d)

(* The person lookup without the user_id filter. *)
FindPersonOfAnyUser(person_id, u) ==
    IF person_id \in DOMAIN people THEN person_id ELSE 0

(* Person.query.filter_by(id=person_id, user_id=current_user.id).first():  *)
(* the id of the person, 0 for None.                                        *)
FindPerson(person_id, u) ==
    IF person_id \in DOMAIN people /\ people[person_id].user_id = u
    THEN person_id ELSE 0

(* The lookup with its status filter dropped: settled debts match too. *)
ActiveDebtsAnyStatus(person_id, direction) ==
    {d \in DOMAIN debts : /\ debts[d].person_id = person_id
                          /\ direction # NULL
                          /\ debts[d].direction = direction}

(* Debt.query.filter_by(person_id=.., direction=.., status='active'): the   *)
(* rows that match.  direction=None compiles to IS NULL and matches none.   *)
ActiveDebts(person_id, direction) ==
    {d \in DOMAIN debts : /\ debts[d].person_id = person_id
                          /\ direction # NULL
                          /\ debts[d].direction = direction
                          /\ debts[d].status = "active"}

(* .first() of that query: one of the matching rows (the query has no      *)
(* ORDER BY), 0 for None.                                                   *)
FirstActiveDebt(person_id, direction) ==
    IF ActiveDebts(person_id, direction) = {} THEN {0}
    ELSE ActiveDebts(person_id, direction)

(* The owner of a debt, through its person (0 when the person is gone). *)
OwnerOf(d) ==
    IF debts[d].person_id \in DOMAIN people
    THEN people[debts[d].person_id].user_id ELSE 0

----------------------------------------------------------------------------
(* Requests and responses *)

Idle == [pc |-> "idle", person_id |-> 0, amount |-> ValueError,
         description |-> "", direction |-> NULL, debt_id |-> 0]

Done == [Idle EXCEPT !.pc = "done"]

(* The workers that are between the commits of add_transaction. *)
InFlight == Cardinality({w \in Workers : req[w].pc \in {"create", "insert"}})

(* The handler of worker w returns: the request is over, its response is  *)
(* ready to be sent.                                                        *)
Return(w, response) ==
    /\ req' = [req EXCEPT ![w] = Done]
    /\ resp' = [resp EXCEPT ![w] = response]

Response(status, flash) ==
    [status |-> status, flash |-> flash, debts |-> <<>>, total_owed |-> 0, total_owe |-> 0]

NoResponse == Response(0, "")

Init ==
    /\ users = Users
    /\ people = <<>>
    /\ debts = <<>>
    /\ txs = <<>>
    /\ clock = 1
    /\ req = [w \in Workers |-> Idle]
    /\ resp = [w \in Workers |-> NoResponse]

----------------------------------------------------------------------------
(* add_person *)

(* add_person without the lookup of an existing person. *)
AddPersonAnyName(w, u, raw_name) ==
    /\ req[w].pc = "idle"
    /\ IF Strip(raw_name) # ""
       THEN /\ people' = Extend(people, NewId(people), [name |-> Strip(raw_name), user_id |-> u])
            /\ Return(w, Response(302, "has been added to your people."))
       ELSE /\ UNCHANGED people
            /\ Return(w, Response(302, "Person name cannot be empty."))
    /\ UNCHANGED <<users, debts, txs, clock>>

AddPerson(w, u, raw_name) ==
    /\ req[w].pc = "idle"
    /\ LET name == Strip(raw_name)
           existing == {p \in DOMAIN people : people[p].name = name /\ people[p].user_id = u}
       IN  IF name # ""
           THEN IF existing = {}
                THEN /\ people' = Extend(people, NewId(people), [name |-> name, user_id |-> u])
                     /\ Return(w, Response(302, "has been added to your people."))
                ELSE /\ UNCHANGED people
                     /\ Return(w, Response(302, ""))
           ELSE /\ UNCHANGED people
                /\ Return(w, Response(302, "Person name cannot be empty."))
    /\ UNCHANGED <<users, debts, txs, clock>>

----------------------------------------------------------------------------
(* add_transaction *)

(* An amount check that refuses only what float() refuses. *)
InvalidAmountNonNumeric(amount) == ~amount.ok

(* The amount check of lines 167-173: float() raised, or amount <= 0.  A   *)
(* NaN compares False with everything, so it passes.                        *)
InvalidAmount(amount) == ~amount.ok \/ (~amount.nan /\ amount.val <= 0)

(* all([person_id, amount_str, description]) *)
AllFields(person_id, amount_str, description) ==
    person_id # 0 /\ Truthy(amount_str) /\ description # ""

(* The checks with the amount parsed before the person is looked up. *)
AddTransactionChecksAmountFirst(u, person_id, amount_str, raw_description) ==
    IF ~AllFields(person_id, amount_str, Strip(raw_description))
    THEN Response(302, "All fields are required.")
    ELSE IF InvalidAmount(Float(amount_str))
    THEN Response(302, "Invalid amount entered.")
    ELSE IF FindPerson(person_id, u) = 0
    THEN Response(403, "")
    ELSE NoResponse

(* Lines 158-173: the checks, in the order the handler makes them; the     *)
(* response a failed check ends the request with, none when all pass.      *)
AddTransactionChecks(u, person_id, amount_str, raw_description) ==
    IF ~AllFields(person_id, amount_str, Strip(raw_description))
    THEN Response(302, "All fields are required.")
    ELSE IF FindPerson(person_id, u) = 0
    THEN Response(403, "")
    ELSE IF InvalidAmount(Float(amount_str))
    THEN Response(302, "Invalid amount entered.")
    ELSE NoResponse

(* Lines 153-176: the checks and the lookup of the active debt. *)
AddTransaction(w, u, person_id, amount_str, raw_description, direction) ==
    /\ req[w].pc = "idle"
    /\ LET checks == AddTransactionChecks(u, person_id, amount_str, raw_description)
       IN  IF checks # NoResponse
           THEN Return(w, checks)
           ELSE \E debt \in FirstActiveDebt(person_id, direction) :
                /\ Cardinality(DOMAIN txs) + InFlight < MaxTxs
                /\ debt = 0 => Cardinality(DOMAIN debts) + InFlight < MaxDebts
                /\ req' = [req EXCEPT ![w] =
                            [pc |-> IF debt = 0 THEN "create" ELSE "insert",
                             person_id |-> person_id, amount |-> Float(amount_str),
                             description |-> Strip(raw_description),
                             direction |-> direction, debt_id |-> debt]]
                /\ UNCHANGED resp
    /\ UNCHANGED <<users, people, debts, txs, clock>>

(* A creation that looks the active debt up again before it writes. *)
CreateDebtRechecked(w) ==
    /\ req[w].pc = "create"
    /\ IF req[w].direction = NULL
       THEN /\ Return(w, Response(500, ""))
            /\ UNCHANGED debts
       ELSE \E debt \in FirstActiveDebt(req[w].person_id, req[w].direction) :
            /\ debts' = IF debt # 0 THEN debts
                        ELSE Extend(debts, NewId(debts),
                                    [person_id |-> req[w].person_id,
                                     direction |-> req[w].direction,
                                     status |-> "active"])
            /\ req' = [req EXCEPT ![w].pc = "insert",
                                  ![w].debt_id = IF debt # 0 THEN debt ELSE NewId(debts)]
            /\ UNCHANGED resp
    /\ UNCHANGED <<users, people, txs, clock>>

(* Lines 177-180: no active debt was found; a new one is added and         *)
(* committed.  Debt.direction is NOT NULL (line 52): a missing direction   *)
(* fails the commit.                                                        *)
CreateDebt(w) ==
    /\ req[w].pc = "create"
    /\ IF req[w].direction = NULL
       THEN /\ Return(w, Response(500, ""))
            /\ UNCHANGED debts
       ELSE /\ debts' = Extend(debts, NewId(debts),
                               [person_id |-> req[w].person_id,
                                direction |-> req[w].direction,
                                status |-> "active"])
            /\ req' = [req EXCEPT ![w].pc = "insert", ![w].debt_id = NewId(debts)]
            /\ UNCHANGED resp
    /\ UNCHANGED <<users, people, txs, clock>>

(* Lines 182-185: the loan row is added and committed.  Transaction.amount *)
(* is NOT NULL (line 63) and SQLite stores NaN as NULL: a NaN amount fails *)
(* this second commit, after the debt's.                                    *)
InsertTransaction(w) ==
    /\ req[w].pc = "insert"
    /\ IF req[w].amount.nan
       THEN /\ Return(w, Response(500, ""))
            /\ UNCHANGED <<txs, clock>>
       ELSE /\ txs' = Extend(txs, NewId(txs),
                             [debt_id |-> req[w].debt_id, amount |-> req[w].amount.val,
                              type |-> "loan", description |-> req[w].description,
                              date |-> clock])
            /\ clock' = clock + 1
            /\ Return(w, Response(302, "Transaction added successfully."))
    /\ UNCHANGED <<users, people, debts>>

----------------------------------------------------------------------------
(* make_payment and settle_debt: the routes are declared at lines 188-189  *)
(* and their bodies are not part of the source; they follow sections 4.3   *)
(* and 5 of the specification (one logical transaction each).              *)

(* The settlement threshold, 0.01, in units of 0.005. *)
Epsilon == 2

Min(a, b) == IF a < b THEN a ELSE b

(* The amount a payment is clamped to. *)
Clamp(amount, d) == Min(amount, balance(d))

(* Settlement only at a balance of zero. *)
StatusAfterPaymentAtZero(table, d) ==
    IF BalanceIn(table, d) <= 0 THEN "settled" ELSE debts[d].status

(* Resolving the Debt of a payment or settlement request: not found, not  *)
(* the caller's, or none of the two.                                        *)
DebtAccess(u, debt_id) ==
    IF debt_id \notin DOMAIN debts THEN Response(404, "")
    ELSE IF OwnerOf(debt_id) # u THEN Response(403, "")
    ELSE NoResponse

(* The debt's status once the payment row is in table. *)
StatusAfterPayment(table, d) ==
    IF BalanceIn(table, d) < Epsilon THEN "settled" ELSE debts[d].status

(* A payment row appended whatever the clamped amount. *)
TxsAfterPaymentAlways(d, amount) ==
    Extend(txs, NewId(txs),
           [debt_id |-> d, amount |-> Clamp(amount, d), type |-> "payment",
            description |-> "Payment", date |-> clock])

(* The tables after the owner's payment request: nothing changes when the  *)
(* clamped amount is <= 0; otherwise a payment row is appended and the     *)
(* status follows the recomputed balance.                                   *)
TxsAfterPayment(d, amount) ==
    IF Clamp(amount, d) <= 0 THEN txs
    ELSE Extend(txs, NewId(txs),
                [debt_id |-> d, amount |-> Clamp(amount, d), type |-> "payment",
                 description |-> "Payment", date |-> clock])

DebtsAfterPayment(d, amount) ==
    IF Clamp(amount, d) <= 0 THEN debts
    ELSE [debts EXCEPT ![d].status = StatusAfterPayment(TxsAfterPayment(d, amount), d)]

MakePayment(w, u, debt_id, amount) ==
    /\ req[w].pc = "idle"
    /\ IF DebtAccess(u, debt_id) # NoResponse
       THEN /\ Return(w, DebtAccess(u, debt_id))
            /\ UNCHANGED <<debts, txs, clock>>
       ELSE /\ Clamp(amount, debt_id) > 0 => Cardinality(DOMAIN txs) + InFlight < MaxTxs
            /\ txs' = TxsAfterPayment(debt_id, amount)
            /\ debts' = DebtsAfterPayment(debt_id, amount)
            /\ clock' = IF Clamp(amount, debt_id) <= 0 THEN clock ELSE clock + 1
            /\ Return(w, Response(302, ""))
    /\ UNCHANGED <<users, people>>

(* A settlement that refuses a Debt with a balance left. *)
SettleDebtWhenPaid(w, u, debt_id) ==
    /\ req[w].pc = "idle"
    /\ IF DebtAccess(u, debt_id) # NoResponse
       THEN /\ Return(w, DebtAccess(u, debt_id))
            /\ UNCHANGED debts
       ELSE /\ debts' = IF balance(debt_id) < Epsilon
                        THEN [debts EXCEPT ![debt_id].status = "settled"]
                        ELSE debts
            /\ Return(w, Response(302, ""))
    /\ UNCHANGED <<users, people, txs, clock>>

SettleDebt(w, u, debt_id) ==
    /\ req[w].pc = "idle"
    /\ IF DebtAccess(u, debt_id) # NoResponse
       THEN /\ Return(w, DebtAccess(u, debt_id))
            /\ UNCHANGED debts
       ELSE /\ debts' = [debts EXCEPT ![debt_id].status = "settled"]
            /\ Return(w, Response(302, ""))
    /\ UNCHANGED <<users, people, txs, clock>>

----------------------------------------------------------------------------
(* index *)

(* The query of index with its status filter dropped. *)
ActiveDebtsOfAnyStatus(u) == {d \in DOMAIN debts : OwnerOf(d) = u}

(* Debt.query.join(Person).filter(Person.user_id == .., Debt.status == 'active') *)
ActiveDebtsOf(u) ==
    {d \in DOMAIN debts : OwnerOf(d) = u /\ debts[d].status = "active"}

RECURSIVE SumBalances(_)
SumBalances(ids) ==
    IF ids = {} THEN 0
    ELSE LET d == CHOOSE x \in ids : TRUE
         IN  balance(d) + SumBalances(ids \ {d})

(* The sort key of line 133: the newest transaction's date, datetime.min   *)
(* (0) for a debt without transactions.                                     *)
LastDate(d) ==
    IF TxsOf(txs, d) = {} THEN 0 ELSE Max({txs[t].date : t \in TxsOf(txs, d)})

(* The orders line 133 can leave the rows in: newest first; rows with the  *)
(* same key keep the order the query gave them, which nothing fixes.       *)
SortedNewestFirst(ids) ==
    {s \in [1..Cardinality(ids) -> ids] :
        /\ \A i, j \in DOMAIN s : i # j => s[i] # s[j]
        /\ \A i, j \in DOMAIN s : i < j => LastDate(s[i]) >= LastDate(s[j])}

Index(w, u) ==
    /\ req[w].pc = "idle"
    /\ \E sorted \in SortedNewestFirst(ActiveDebtsOf(u)) :
          Return(w, [status |-> 200, flash |-> "", debts |-> sorted,
                     total_owed |-> SumBalances({d \in ActiveDebtsOf(u) : debts[d].direction = "lent"}),
                     total_owe |-> SumBalances({d \in ActiveDebtsOf(u) : debts[d].direction = "borrowed"})])
    /\ UNCHANGED <<users, people, debts, txs, clock>>

----------------------------------------------------------------------------
(* The requests a worker serves *)

(* The response is sent; the worker is free for the next request. *)
Send(w) ==
    /\ req[w].pc = "done"
    /\ req' = [req EXCEPT ![w] = Idle]
    /\ resp' = [resp EXCEPT ![w] = NoResponse]
    /\ UNCHANGED <<users, people, debts, txs, clock>>

(* Ids a request may name: 0 is a missing person_id; the largest debt id  *)
(* is never a row.                                                          *)
PersonIds == 0..Cardinality(Users)
DebtIds == 1..(MaxDebts + 1)

Serve(w, directions) ==
    \/ \E u \in Users, n \in RawNames : AddPerson(w, u, n)
    \/ \E u \in Users, p \in PersonIds, a \in FormAmounts,
          d \in RawDescriptions, dir \in directions :
          AddTransaction(w, u, p, a, d, dir)
    \/ CreateDebt(w)
    \/ InsertTransaction(w)
    \/ \E u \in Users, d \in DebtIds, a \in PayAmounts : MakePayment(w, u, d, a)
    \/ \E u \in Users, d \in DebtIds : SettleDebt(w, u, d)
    \/ \E u \in Users : Index(w, u)
    \/ Send(w)

(* One request at a time: a single worker serves each request to its end. *)
Next == Serve(1, Directions)

Spec == Init /\ [][Next]_vars

(* One request at a time, the direction field holding any text. *)
NextAnyDirection == Serve(1, FormDirections)

SpecAnyDirection == Init /\ [][NextAnyDirection]_vars

(* The requests of the race on the active-debt lookup: loans for the pairs *)
(* of each person, and the settlements between them.                        *)
ServeLoans(w) ==
    \/ \E u \in Users : AddPerson(w, u, " al ")
    \/ \E u \in Users, p \in PersonIds, dir \in {"lent", "borrowed"} :
          AddTransaction(w, u, p, NumText(3), " lunch ", dir)
    \/ CreateDebt(w)
    \/ InsertTransaction(w)
    \/ \E u \in Users, d \in DebtIds : SettleDebt(w, u, d)
    \/ Send(w)

(* Requests served concurrently by all the workers. *)
NextConcurrent == \E w \in Workers : ServeLoans(w)

SpecConcurrent == Init /\ [][NextConcurrent]_vars

(* Debt.balance on any ledger: the tables hold one person with a Debt in    *)
(* each direction, and up to MaxLedger rows of any amount and type, a type  *)
(* other than 'loan' and 'payment' included (Transaction.type is a free     *)
(* string column); index reads the balances.                                *)
MaxLedger == 3
Kinds == {"loan", "payment", "fee"}
LedgerAmounts == {1, 3}

Ledgers ==
    {[i \in DOMAIN f |-> [debt_id |-> f[i][1], amount |-> f[i][2], type |-> f[i][3],
                          description |-> "lunch", date |-> i]] :
        f \in UNION {[1..n -> {1, 2} \X LedgerAmounts \X Kinds] : n \in 0..MaxLedger}}

InitLedger ==
    /\ users = Users
    /\ people = <<[name |-> "al", user_id |-> 1]>>
    /\ debts = <<[person_id |-> 1, direction |-> "lent", status |-> "active"],
                 [person_id |-> 1, direction |-> "borrowed", status |-> "active"]>>
    /\ txs \in Ledgers
    /\ clock = MaxLedger + 1
    /\ req = [w \in Workers |-> Idle]
    /\ resp = [w \in Workers |-> NoResponse]

NextLedger ==
    \/ \E u \in Users : Index(1, u)
    \/ Send(1)

SpecLedger == InitLedger /\ [][NextLedger]_vars

(* add_person alone, with names that differ in case and in the spaces      *)
(* around them.                                                              *)
PersonNames == {"", " al ", "al", "Al", "AL"}

NextPeople ==
    \/ \E u \in Users, n \in PersonNames : AddPerson(1, u, n)
    \/ Send(1)

SpecPeople == Init /\ [][NextPeople]_vars

----------------------------------------------------------------------------
(* Deletion.  No route deletes a row; the relationships declare what a      *)
(* db.session.delete(row) takes with it: cascade="all, delete-orphan" on    *)
(* User.people, Person.debts and Debt.transactions.                          *)

(* A relationship that takes no child with its parent. *)
DebtsOfNobody(ps) == {}

(* User.people, Person.debts, Debt.transactions of the given parents. *)
PeopleOf(us) == {p \in DOMAIN people : people[p].user_id \in us}
DebtsOf(ps) == {d \in DOMAIN debts : debts[d].person_id \in ps}
TransactionsOf(ds) == {t \in DOMAIN txs : txs[t].debt_id \in ds}

Without(table, ids) == [i \in DOMAIN table \ ids |-> table[i]]

(* The users, persons and debts given are deleted with all that the        *)
(* cascades reach from them.                                                *)
Delete(us, ps, ds) ==
    LET gone_people == ps \cup PeopleOf(us)
        gone_debts == ds \cup DebtsOf(gone_people)
    IN  /\ users' = users \ us
        /\ people' = Without(people, gone_people)
        /\ debts' = Without(debts, gone_debts)
        /\ txs' = Without(txs, TransactionsOf(gone_debts))

DeleteUser(w, u) ==
    /\ req[w].pc = "idle"
    /\ u \in users
    /\ Delete({u}, {}, {})
    /\ UNCHANGED <<clock, req, resp>>

DeletePerson(w, p) ==
    /\ req[w].pc = "idle"
    /\ p \in DOMAIN people
    /\ Delete({}, {p}, {})
    /\ UNCHANGED <<clock, req, resp>>

DeleteDebt(w, d) ==
    /\ req[w].pc = "idle"
    /\ d \in DOMAIN debts
    /\ Delete({}, {}, {d})
    /\ UNCHANGED <<clock, req, resp>>

(* register: a new account gets the next id of table user. *)
Register(w) ==
    /\ req[w].pc = "idle"
    /\ LET id == IF users = {} THEN 1 ELSE Max(users) + 1
       IN  /\ id \in Users
           /\ users' = users \cup {id}
    /\ Return(w, Response(302, "Congratulations, you are now a registered user!"))
    /\ UNCHANGED <<people, debts, txs, clock>>

(* The clock value after which no more row is written. *)
MaxClock == 3

(* The ledger operations of the logged-in users, one request at a time,    *)
(* and deletions between the requests.                                      *)
NextDelete ==
    \/ Register(1)
    \/ \E u \in users : AddPerson(1, u, "al")
    \/ \E u \in users, p \in PersonIds \ {0} :
          clock <= MaxClock /\ AddTransaction(1, u, p, NumText(3), " lunch ", "lent")
    \/ CreateDebt(1)
    \/ InsertTransaction(1)
    \/ \E u \in users, d \in DebtIds : clock <= MaxClock /\ MakePayment(1, u, d, 1)
    \/ \E u \in users : DeleteUser(1, u)
    \/ \E p \in PersonIds : DeletePerson(1, p)
    \/ \E d \in DebtIds : DeleteDebt(1, d)
    \/ Send(1)

SpecDelete == Init /\ [][NextDelete]_vars

----------------------------------------------------------------------------
(* Loans and payments alone, each user having added a person: the plain    *)
(* redirect is then the response of make_payment only.                      *)
InitPeople ==
    /\ users = Users
    /\ people = <<[name |-> "al", user_id |-> 1], [name |-> "al", user_id |-> 2]>>
    /\ debts = <<>>
    /\ txs = <<>>
    /\ clock = 1
    /\ req = [w \in Workers |-> Idle]
    /\ resp = [w \in Workers |-> NoResponse]

NextPayments ==
    \/ \E u \in Users, p \in PersonIds, a \in {NumText(1), NumText(3)}, dir \in {"lent", "borrowed"} :
          AddTransaction(1, u, p, a, " lunch ", dir)
    \/ CreateDebt(1)
    \/ InsertTransaction(1)
    \/ \E u \in Users, d \in DebtIds, a \in PayAmounts : MakePayment(1, u, d, a)
    \/ Send(1)

SpecPayments == InitPeople /\ [][NextPayments]_vars

----------------------------------------------------------------------------
(* The runs in which no request fails: neither commit of add_transaction  *)
(* ends in a 500.                                                           *)
NonFailing(w) == resp'[w].status # 500

NextNonFailing ==
    \/ \E u \in Users, n \in RawNames : AddPerson(1, u, n)
    \/ \E u \in Users, p \in PersonIds, a \in FormAmounts,
          d \in RawDescriptions, dir \in Directions :
          AddTransaction(1, u, p, a, d, dir)
    \/ CreateDebt(1) /\ NonFailing(1)
    \/ InsertTransaction(1) /\ NonFailing(1)
    \/ \E u \in Users, d \in DebtIds, a \in PayAmounts : MakePayment(1, u, d, a)
    \/ \E u \in Users, d \in DebtIds : SettleDebt(1, u, d)
    \/ \E u \in Users : Index(1, u)
    \/ Send(1)

SpecNonFailing == Init /\ [][NextNonFailing]_vars

----------------------------------------------------------------------------
(* Properties *)

ActivePairs(d1, d2) ==
    /\ debts[d1].status = "active" /\ debts[d2].status = "active"
    /\ debts[d1].person_id = debts[d2].person_id
    /\ debts[d1].direction = debts[d2].direction

OneActiveDebtPerPair ==
    \A d1, d2 \in DOMAIN debts : ActivePairs(d1, d2) => d1 = d2

(* Debt d is an active Debt of the pair worker w's loan request names. *)
ActiveForRequest(w, d) ==
    /\ debts[d].person_id = req[w].person_id
    /\ debts[d].direction = req[w].direction
    /\ debts[d].status = "active"

(* A step of add_transaction by worker w: a Debt is created only when the  *)
(* pair has no active Debt, and the loan goes to the pair's active Debt.   *)
LoanGoesToActiveDebt(w) ==
    /\ DOMAIN debts' # DOMAIN debts =>
          \A d \in DOMAIN debts : ~ActiveForRequest(w, d)
    /\ (req[w].pc = "insert" /\ DOMAIN txs' # DOMAIN txs) =>
          \A t \in DOMAIN txs' \ DOMAIN txs :
             /\ txs'[t].type = "loan"
             /\ txs'[t].debt_id \in DOMAIN debts
             /\ ActiveForRequest(w, txs'[t].debt_id)

(* C1: with requests served one at a time, every (Person, direction) pair  *)
(* has at most one active Debt, and a loan for a pair that has an active   *)
(* Debt is appended to that Debt without a new Debt being created.         *)
C1_OneActiveDebtPerPair ==
    /\ []OneActiveDebtPerPair
    /\ [][\A w \in Workers : req[w].pc \in {"create", "insert"} => LoanGoesToActiveDebt(w)]_vars

(* Two loans were recorded on one Debt, which is still active. *)
C1_Witness ==
    \E d \in DOMAIN debts :
       /\ debts[d].status = "active"
       /\ Cardinality({t \in TxsOf(txs, d) : txs[t].type = "loan"}) >= 2

(* C2: a Debt and its loan Transaction are committed together: no state    *)
(* holds a Debt without a Transaction.                                      *)
C2_NoDebtWithoutTransaction ==
    \A d \in DOMAIN debts : TxsOf(txs, d) # {}

(* C3: the balance of every Debt is >= 0 in every reachable state.         *)
C3_BalanceNeverNegative ==
    \A d \in DOMAIN debts : balance(d) >= 0

(* A payment request above the balance was clamped to it: the row's amount *)
(* is none a request can carry, and the Debt is paid off.                   *)
C3_Witness ==
    \E t \in DOMAIN txs :
       /\ txs[t].type = "payment"
       /\ txs[t].amount \notin PayAmounts
       /\ balance(txs[t].debt_id) = 0

(* Worker w's handler ran from the request to its response in this step. *)
Handled(w) == req[w].pc = "idle" /\ req'[w].pc = "done"

(* ... and answered with the plain redirect of make_payment and settle_debt. *)
Redirected(w) == Handled(w) /\ resp'[w] = Response(302, "")

(* The owner u's payment request of amount p on the existing Debt d. *)
PaymentByOwner(w, u, d, p) ==
    /\ d \in DOMAIN debts
    /\ OwnerOf(d) = u
    /\ MakePayment(w, u, d, p)

PaymentLowersBalance(w, u, d, p) ==
    LET b == balance(d)
    IN  /\ (0 < p /\ p <= b) => BalanceIn(txs', d) = b - p
        /\ p > b => /\ txs' = TxsAfterPayment(d, b)
                    /\ debts' = DebtsAfterPayment(d, b)

(* C4: a payment of 0 < p <= balance lowers the balance by exactly p, and  *)
(* a payment of p > balance leaves the same rows, balance and status as a  *)
(* payment of exactly the balance.                                          *)
C4_PaymentLowersBalance ==
    [][\A w \in Workers : Redirected(w) =>
          \A u \in Users, d \in DebtIds, p \in PayAmounts :
             PaymentByOwner(w, u, d, p) => PaymentLowersBalance(w, u, d, p)]_vars

(* A partial payment was recorded: a loan of 3, a payment of 1, 2 left. *)
C4_Witness ==
    \E d \in DOMAIN debts :
       /\ balance(d) = 2
       /\ \E t \in TxsOf(txs, d) : txs[t].type = "payment" /\ txs[t].amount = 1

PaymentSettles(d) ==
    /\ BalanceIn(txs', d) < Epsilon => debts'[d].status = "settled"
    /\ (BalanceIn(txs', d) >= Epsilon /\ debts[d].status = "active") =>
          debts'[d].status = "active"

(* C5: a payment that appends a row settles the Debt when the balance      *)
(* recomputed with that row is below 0.01, and leaves an active Debt       *)
(* active when that balance is 0.01 or more.                                *)
C5_PaymentSettlesBelowEpsilon ==
    [][\A w \in Workers : (Redirected(w) /\ DOMAIN txs' # DOMAIN txs) =>
          \A u \in Users, d \in DebtIds, p \in PayAmounts :
             PaymentByOwner(w, u, d, p) => PaymentSettles(d)]_vars

(* The newest row is a payment that left a balance above zero and below    *)
(* 0.01, and its Debt is settled.                                           *)
C5_Witness ==
    /\ DOMAIN txs # {}
    /\ LET t == Max(DOMAIN txs)
       IN  /\ txs[t].type = "payment"
           /\ balance(txs[t].debt_id) > 0
           /\ balance(txs[t].debt_id) < Epsilon
           /\ debts[txs[t].debt_id].status = "settled"

LoansOf(table, d) == {t \in TxsOf(table, d) : table[t].type = "loan"}

(* A settled Debt stays settled and is lent on no more. *)
SettledStaysSettled(d) ==
    debts[d].status = "settled" =>
       /\ d \in DOMAIN debts'
       /\ debts'[d].status = "settled"
       /\ LoansOf(txs', d) = LoansOf(txs, d)

(* A Debt that add_transaction creates is a new active row without rows of *)
(* its own, and the loan raises the balance of its Debt by its amount.     *)
FreshDebt(w) ==
    /\ (req[w].pc = "create" /\ DOMAIN debts' # DOMAIN debts) =>
          \A d \in DOMAIN debts' \ DOMAIN debts :
             /\ debts'[d].status = "active"
             /\ TxsOf(txs', d) = {}
    /\ (req[w].pc = "insert" /\ DOMAIN txs' # DOMAIN txs) =>
          BalanceIn(txs', req[w].debt_id) = balance(req[w].debt_id) + req[w].amount.val

(* C6 (as amended): once a Debt is settled no operation sets it back to    *)
(* active and no loan is appended to it; a loan for the same pair creates  *)
(* a fresh active Debt whose balance is that loan's amount.  A payment may *)
(* still be appended to a settled Debt that has a balance left.            *)
C6_SettledIsTerminal ==
    [][/\ \A d \in DOMAIN debts : SettledStaysSettled(d)
       /\ \A w \in Workers : FreshDebt(w)]_vars

(* A settled Debt, and a later active Debt of the same pair whose balance  *)
(* is the amount of its only row.                                           *)
C6_Witness ==
    \E d1, d2 \in DOMAIN debts :
       /\ d1 < d2
       /\ debts[d1].person_id = debts[d2].person_id
       /\ debts[d1].direction = debts[d2].direction
       /\ debts[d1].status = "settled"
       /\ debts[d2].status = "active"
       /\ \E t \in DOMAIN txs : TxsOf(txs, d2) = {t} /\ balance(d2) = txs[t].amount

(* C6 as stated: once a Debt is settled no operation sets it back to       *)
(* active or appends a Transaction to it.                                   *)
C6_NoRowAfterSettled ==
    [][\A d \in DOMAIN debts :
          debts[d].status = "settled" =>
             /\ d \in DOMAIN debts'
             /\ debts'[d].status = "settled"
             /\ TxsOf(txs', d) = TxsOf(txs, d)]_vars

(* C7: settleManually by the owner sets the Debt's status to settled       *)
(* whatever its balance, and changes no Transaction, no balance and no     *)
(* other Debt.                                                              *)
C7_SettleKeepsTransactions ==
    [][\A w \in Workers : Redirected(w) =>
          \A u \in Users, d \in DebtIds :
             (d \in DOMAIN debts /\ OwnerOf(d) = u /\ SettleDebt(w, u, d)) =>
                /\ debts'[d].status = "settled"
                /\ txs' = txs
                /\ \A e \in DOMAIN debts : BalanceIn(txs', e) = balance(e)
                /\ \A e \in DOMAIN debts \ {d} : debts'[e] = debts[e]]_vars

(* A Debt is settled with 0.01 or more left: no payment settles at such a  *)
(* balance, it was written off.                                             *)
C7_Witness ==
    \E d \in DOMAIN debts : debts[d].status = "settled" /\ balance(d) >= Epsilon

(* Person p exists and belongs to another user than u. *)
ForeignPerson(u, p) == p \in DOMAIN people /\ people[p].user_id # u

(* Debt d exists and is rooted at another user's person. *)
ForeignDebt(u, d) == d \in DOMAIN debts /\ OwnerOf(d) # u

(* The redirect that reports rejected input. *)
ValidationOutcome(r) ==
    /\ r.status = 302
    /\ r.flash \in {"All fields are required.", "Invalid amount entered."}

(* What a request on a row of another user is answered. *)
ForeignLoanForbidden ==
    \A u \in Users, p \in PersonIds :
       ForeignPerson(u, p) =>
          \A a \in FormAmounts, d \in RawDescriptions :
             LET r == AddTransactionChecks(u, p, a, d)
             IN  IF AllFields(p, a, Strip(d)) THEN r.status = 403 ELSE ValidationOutcome(r)

ForeignDebtForbidden ==
    \A u \in Users, d \in DebtIds : ForeignDebt(u, d) => DebtAccess(u, d).status = 403

(* A request answered 403 or with the validation outcome changed no table. *)
RefusedChangesNothing(w) ==
    (Handled(w) /\ (resp'[w].status = 403 \/ ValidationOutcome(resp'[w]))) =>
       UNCHANGED <<people, debts, txs>>

(* Every row index lists is rooted at a person of u. *)
ListsOwnDebts(w, u) ==
    \A i \in DOMAIN resp'[w].debts :
       /\ resp'[w].debts[i] \in DOMAIN debts
       /\ OwnerOf(resp'[w].debts[i]) = u

(* C8 (as amended): a loan, payment or settlement request on a Person or   *)
(* Debt of another Owner changes no Person, Debt or Transaction and ends   *)
(* in 403, except that a loan request with a required field missing ends   *)
(* in the validation outcome; index lists no Debt of another Owner.        *)
C8_CrossOwnerForbidden ==
    /\ [](ForeignLoanForbidden /\ ForeignDebtForbidden)
    /\ [][\A w \in Workers :
             /\ RefusedChangesNothing(w)
             /\ (Handled(w) /\ resp'[w].status = 200) =>
                   \A u \in Users : Index(w, u) => ListsOwnDebts(w, u)]_vars

(* Both users have a person, so every person id a request can name exists, *)
(* and a request was answered 403: it named a row of the other user.       *)
C8_Witness ==
    /\ Cardinality(DOMAIN people) = Cardinality(Users)
    /\ DOMAIN debts # {}
    /\ \E w \in Workers : req[w].pc = "done" /\ resp[w].status = 403

(* C8 as stated: every loan, payment or settlement request on a Person or  *)
(* Debt of another Owner is answered 403.                                   *)
C8_AlwaysForbidden ==
    /\ ForeignDebtForbidden
    /\ \A u \in Users, p \in PersonIds :
          ForeignPerson(u, p) =>
             \A a \in FormAmounts, d \in RawDescriptions :
                AddTransactionChecks(u, p, a, d).status = 403

(* The amount field holds no number, or a number that is not positive. *)
NotAPositiveNumber(a) == a.kind \in {"text", "nan"} \/ (a.kind = "num" /\ a.val <= 0)

(* C9: a loan request for a person of the caller with an amount that is    *)
(* not a positive number ends in the validation outcome and leaves every   *)
(* Debt and Transaction as it was.                                          *)
C9_InvalidAmountRejected ==
    [][\A w \in Workers : req[w].pc = "idle" =>
          \A u \in Users, p \in PersonIds, a \in FormAmounts,
             d \in RawDescriptions, dir \in FormDirections :
             (/\ FindPerson(p, u) # 0
              /\ NotAPositiveNumber(a)
              /\ AddTransaction(w, u, p, a, d, dir)) =>
                /\ req'[w].pc = "done"
                /\ ValidationOutcome(resp'[w])
                /\ UNCHANGED <<debts, txs>>]_vars

(* C10: the ledger is append-only: every Transaction of a state is in the  *)
(* next state with the same amount, type, description, date and Debt.      *)
C10_LedgerAppendOnly ==
    [][\A t \in DOMAIN txs : t \in DOMAIN txs' /\ txs'[t] = txs[t]]_vars

(* A loan and a later payment are both on the ledger of a settled Debt. *)
C10_Witness ==
    \E t1, t2 \in DOMAIN txs :
       /\ t1 < t2
       /\ txs[t1].type = "loan" /\ txs[t2].type = "payment"
       /\ txs[t1].debt_id = txs[t2].debt_id
       /\ debts[txs[t1].debt_id].status = "settled"

(* What one row adds to the balance of its Debt. *)
Contribution(row) ==
    CASE row.type = "loan" -> row.amount
      [] row.type = "payment" -> 0 - row.amount
      [] OTHER -> 0

(* The contributions of the first n rows of the ledger that belong to d. *)
RECURSIVE Running(_, _)
Running(d, n) ==
    IF n = 0 THEN 0
    ELSE Running(d, n - 1)
         + (IF n \in DOMAIN txs /\ txs[n].debt_id = d THEN Contribution(txs[n]) ELSE 0)

RECURSIVE PlainSum(_, _)
PlainSum(d, n) ==
    IF n = 0 THEN 0
    ELSE PlainSum(d, n - 1) + (IF n \in DOMAIN txs /\ txs[n].debt_id = d THEN txs[n].amount ELSE 0)

LastId == IF DOMAIN txs = {} THEN 0 ELSE Max(DOMAIN txs)

(* C11: the balance of a Debt is the sum of its loans minus the sum of its  *)
(* payments, a row of any other type adding nothing; a Debt with loans only *)
(* has the sum of their amounts as its balance, and index reports these     *)
(* balances.                                                                 *)
C11_BalanceIsLoansMinusPayments ==
    /\ \A d \in DOMAIN debts :
          /\ balance(d) = Running(d, LastId)
          /\ (\A t \in TxsOf(txs, d) : txs[t].type = "loan") => balance(d) = PlainSum(d, LastId)
    /\ \A w \in Workers :
          (resp[w].status = 200 /\ Len(resp[w].debts) = Cardinality(DOMAIN debts)) =>
             /\ resp[w].total_owed = Running(1, LastId)
             /\ resp[w].total_owe = Running(2, LastId)

(* index has read the balance of a Debt that holds a loan of 3, a payment  *)
(* of 1 and a row of another type: 2.                                       *)
C11_Witness ==
    /\ resp[1].status = 200
    /\ resp[1].total_owed = 2
    /\ \E t1, t2, t3 \in TxsOf(txs, 1) :
          /\ txs[t1].type = "loan" /\ txs[t1].amount = 3
          /\ txs[t2].type = "payment" /\ txs[t2].amount = 1
          /\ txs[t3].type = "fee"

(* Debt d is active and rooted at a person of u. *)
ActiveAndOwned(u, d) ==
    /\ debts[d].status = "active"
    /\ debts[d].person_id \in DOMAIN people
    /\ people[debts[d].person_id].user_id = u

(* The contributions of the first n rows of the ledger that belong to an   *)
(* active Debt of u in the given direction.                                 *)
RECURSIVE LedgerTotal(_, _, _)
LedgerTotal(u, direction, n) ==
    IF n = 0 THEN 0
    ELSE LedgerTotal(u, direction, n - 1)
         + (IF /\ n \in DOMAIN txs
               /\ txs[n].debt_id \in DOMAIN debts
               /\ ActiveAndOwned(u, txs[n].debt_id)
               /\ debts[txs[n].debt_id].direction = direction
            THEN Contribution(txs[n]) ELSE 0)

(* The response of index for u lists each active Debt of u once and no     *)
(* other, and its totals are those of the listed Debts by direction.        *)
ListsActiveDebts(w, u) ==
    /\ {resp'[w].debts[i] : i \in DOMAIN resp'[w].debts} = {d \in DOMAIN debts : ActiveAndOwned(u, d)}
    /\ Len(resp'[w].debts) = Cardinality({d \in DOMAIN debts : ActiveAndOwned(u, d)})
    /\ resp'[w].total_owed = LedgerTotal(u, "lent", LastId)
    /\ resp'[w].total_owe = LedgerTotal(u, "borrowed", LastId)

(* C12: index returns exactly the active Debts whose Person belongs to the *)
(* caller, and its two totals are the sums of the balances of the returned *)
(* Debts of direction lent and of direction borrowed; settled Debts and    *)
(* Debts of other users add to neither.                                     *)
C12_IndexListsActiveDebts ==
    [][\A w \in Workers : (Handled(w) /\ resp'[w].status = 200) =>
          \A u \in Users : Index(w, u) => ListsActiveDebts(w, u)]_vars

(* index answered with one Debt and its balance as the total lent, while   *)
(* the same user has a settled lent Debt with a balance left.               *)
C12_Witness ==
    /\ resp[1].status = 200
    /\ Len(resp[1].debts) = 1
    /\ resp[1].total_owed = balance(resp[1].debts[1])
    /\ resp[1].total_owed > 0
    /\ \E d \in DOMAIN debts :
          /\ debts[d].status = "settled"
          /\ balance(d) > 0
          /\ debts[d].direction = "lent"
          /\ OwnerOf(d) = OwnerOf(resp[1].debts[1])

UniqueNames ==
    \A p1, p2 \in DOMAIN people :
       (people[p1].user_id = people[p2].user_id /\ people[p1].name = people[p2].name) => p1 = p2

(* Names are stored trimmed and never empty. *)
TrimmedNames == \A p \in DOMAIN people : people[p].name \notin {"", " al "}

(* u already has a person of this name, the spaces around it removed. *)
HasPerson(u, raw_name) ==
    \E p \in DOMAIN people : people[p].user_id = u /\ people[p].name = Strip(raw_name)

(* An add_person step of u: a name u has leaves the table as it is, a new  *)
(* non-empty name adds one row for u, whatever the other users have.       *)
AddsOnlyNewNames(w, u, n) ==
    /\ HasPerson(u, n) => people' = people
    /\ (~HasPerson(u, n) /\ Strip(n) # "") =>
          /\ Cardinality(DOMAIN people') = Cardinality(DOMAIN people) + 1
          /\ \A p \in DOMAIN people : p \in DOMAIN people' /\ people'[p] = people[p]
          /\ \A p \in DOMAIN people' \ DOMAIN people :
                people'[p] = [name |-> Strip(n), user_id |-> u]

(* C13: with add_person calls served one at a time, no two persons of one  *)
(* user have the same name (exact match after trimming); adding a name the *)
(* user already has changes no person, and a name another user has is      *)
(* added all the same.                                                      *)
C13_UniqueNamePerOwner ==
    /\ [](UniqueNames /\ TrimmedNames)
    /\ [][\A w \in Workers : Handled(w) =>
             \A u \in Users, n \in PersonNames :
                AddPerson(w, u, n) => AddsOnlyNewNames(w, u, n)]_vars

(* Both users have a person named "al", and one of them also has "Al". *)
C13_Witness ==
    /\ \A u \in Users : \E p \in DOMAIN people : people[p].user_id = u /\ people[p].name = "al"
    /\ \E p1, p2 \in DOMAIN people :
          /\ people[p1].user_id = people[p2].user_id
          /\ people[p1].name = "al" /\ people[p2].name = "Al"

(* Every row references a row that exists. *)
ReferencesExist ==
    /\ \A p \in DOMAIN people : people[p].user_id \in users
    /\ \A d \in DOMAIN debts : debts[d].person_id \in DOMAIN people
    /\ \A t \in DOMAIN txs : txs[t].debt_id \in DOMAIN debts

(* A step that removes a parent removes every row below it, and no step    *)
(* removes a row whose chain of parents stays.                              *)
RemovedWithParents ==
    /\ \A p \in DOMAIN people :
          (p \notin DOMAIN people' \/ people[p].user_id \notin users') =>
             \A d \in DOMAIN debts : debts[d].person_id = p =>
                /\ d \notin DOMAIN debts' \/ debts'[d] # debts[d]
                /\ \A t \in DOMAIN txs : txs[t].debt_id = d => t \notin DOMAIN txs' \/ txs'[t] # txs[t]
    /\ \A d \in DOMAIN debts :
          d \notin DOMAIN debts' => \A t \in DOMAIN txs : txs[t].debt_id = d => t \notin DOMAIN txs'
    /\ \A u \in users \ users' : \A p \in DOMAIN people : people[p].user_id = u => p \notin DOMAIN people'

(* C14: deletion cascades down the chain user, person, debt, transaction:  *)
(* after a user, a person or a debt is deleted none of its descendants is  *)
(* left, so in every state each person references an existing user, each   *)
(* debt an existing person and each transaction an existing debt.          *)
C14_DeletionCascades ==
    /\ []ReferencesExist
    /\ [][RemovedWithParents]_vars

(* The first person is gone with its debt and its transaction; the second  *)
(* person, its debt and its transaction are all that is left.              *)
C14_Witness ==
    /\ DOMAIN people = {2}
    /\ DOMAIN debts = {2}
    /\ DOMAIN txs = {2}
    /\ txs[2].debt_id = 2 /\ debts[2].person_id = 2

(* Worker w commits the Debt it decided to create at its lookup. *)
CommitsNewDebt(w) == req[w].pc = "create" /\ req'[w].pc = "insert"

(* C15: with loan requests served concurrently, a request that found no    *)
(* active Debt at its lookup creates one even when another request has     *)
(* committed an active Debt of the same pair since: the pair then has two  *)
(* active Debts at once.                                                    *)
C15_ConcurrentLoansDuplicate ==
    [][\A w \in Workers :
          (CommitsNewDebt(w) /\ \E d \in DOMAIN debts : ActiveForRequest(w, d)) =>
             \E d1, d2 \in DOMAIN debts' :
                /\ d1 # d2
                /\ debts'[d1].status = "active" /\ debts'[d2].status = "active"
                /\ debts'[d1].person_id = req[w].person_id
                /\ debts'[d2].person_id = req[w].person_id
                /\ debts'[d1].direction = req[w].direction
                /\ debts'[d2].direction = req[w].direction]_vars

(* Two active Debts of one (person, direction) pair, each with the loan of *)
(* the request that created it.                                             *)
C15_Witness ==
    \E d1, d2 \in DOMAIN debts :
       /\ d1 # d2
       /\ ActivePairs(d1, d2)
       /\ LoansOf(txs, d1) # {} /\ LoansOf(txs, d2) # {}

(* C16: a payment whose amount is not positive, or any payment on a Debt  *)
(* whose balance is 0, is a no-op: it is answered with the plain redirect, *)
(* not an error, and adds no Transaction and changes no Debt's status or   *)
(* balance.                                                                 *)
C16_ClampedPaymentIsNoOp ==
    [][\A w \in Workers : Handled(w) =>
          \A u \in Users, d \in DebtIds, p \in PayAmounts :
             (PaymentByOwner(w, u, d, p) /\ (p <= 0 \/ balance(d) <= 0)) =>
                /\ resp'[w] = Response(302, "")
                /\ txs' = txs
                /\ debts' = debts
                /\ BalanceIn(txs', d) = balance(d)]_vars

(* A payment was answered with the plain redirect and the ledger holds no  *)
(* payment row: the payment was a no-op on one of the Debts.                *)
C16_Witness ==
    /\ req[1].pc = "done"
    /\ resp[1] = Response(302, "")
    /\ DOMAIN debts # {}
    /\ \A t \in DOMAIN txs : txs[t].type # "payment"

(* C17: every Debt has direction lent or borrowed and status active or     *)
(* settled, whatever direction a loan request carries.                      *)
C17_DirectionAndStatusInRange ==
    \A d \in DOMAIN debts :
       /\ debts[d].direction \in {"lent", "borrowed"}
       /\ debts[d].status \in {"active", "settled"}

(* No request is between its database commits. *)
BetweenRequests == \A w \in Workers : req[w].pc \in {"idle", "done"}

PaymentsOf(table, d) == {t \in TxsOf(table, d) : table[t].type = "payment"}

(* C18 (as amended): between sequentially served requests none of which    *)
(* failed, every active Debt has at least one loan and a balance above 0,  *)
(* and a balance of 0.01 or more once it has a payment; an active Debt     *)
(* whose loans sum to less than 0.01 has a balance below 0.01.             *)
C18_ActiveHasLoanAndBalance ==
    BetweenRequests =>
       \A d \in DOMAIN debts : debts[d].status = "active" =>
          /\ LoansOf(txs, d) # {}
          /\ balance(d) > 0
          /\ PaymentsOf(txs, d) # {} => balance(d) >= Epsilon

(* Between requests, an active Debt whose only row is a loan of 0.005. *)
C18_Witness ==
    /\ BetweenRequests
    /\ \E d \in DOMAIN debts :
          /\ debts[d].status = "active"
          /\ Cardinality(TxsOf(txs, d)) = 1
          /\ LoansOf(txs, d) # {}
          /\ balance(d) = 1

(* C18 as stated: every active Debt has at least one loan and a balance of *)
(* 0.01 or more.                                                            *)
C18_ActiveHasBalanceAboveEpsilon ==
    BetweenRequests =>
       \A d \in DOMAIN debts : debts[d].status = "active" =>
          /\ LoansOf(txs, d) # {}
          /\ balance(d) >= Epsilon

(* A required field of the loan form is missing or empty. *)
FieldMissing(p, a, d) == p = 0 \/ a.kind = "missing" \/ Strip(d) \in {"", "  "}

(* Person p is not one of u's: it belongs to another user or does not exist. *)
NotOwned(u, p) == p \notin DOMAIN people \/ people[p].user_id # u

(* The outcome of the checks of a loan request, by the order of the checks. *)
ChecksInOrder(u, p, a, d) ==
    LET r == AddTransactionChecks(u, p, a, d)
    IN  /\ FieldMissing(p, a, d) => r = Response(302, "All fields are required.")
        /\ (~FieldMissing(p, a, d) /\ NotOwned(u, p)) => r = Response(403, "")
        /\ (~FieldMissing(p, a, d) /\ ~NotOwned(u, p) /\ a.kind # "nan" /\ NotAPositiveNumber(a)) =>
              r = Response(302, "Invalid amount entered.")

(* C19: add_transaction checks the required fields, then the ownership of  *)
(* the person, then the amount: an invalid amount for a person the caller  *)
(* does not own ends in 403, a missing field ends in the validation        *)
(* outcome even for such a person, and in both cases no Debt and no        *)
(* Transaction is written.                                                  *)
C19_ChecksInFixedOrder ==
    /\ [](\A u \in Users, p \in PersonIds, a \in FormAmounts, d \in RawDescriptions :
             ChecksInOrder(u, p, a, d))
    /\ [][\A w \in Workers :
             (Handled(w) /\ (resp'[w] = Response(403, "") \/ ValidationOutcome(resp'[w]))) =>
                (debts' = debts /\ txs' = txs)]_vars

(* Both users have a person and no Debt exists: the 403 that is pending    *)
(* answers a loan request that named the other user's person.              *)
C19_Witness ==
    /\ Cardinality(DOMAIN people) = Cardinality(Users)
    /\ debts = <<>>
    /\ req[1].pc = "done"
    /\ resp[1] = Response(403, "")

====
